---------------------------- MODULE Spec2Model ----------------------------
(***************************************************************************)
(* A model of the Sumcheck repository: the sparse multivariate polynomial  *)
(* over a prime field (src/src/lib.rs) and the prover/verifier round loop  *)
(* run_protocol (src/src/main.rs).                                         *)
(*                                                                         *)
(* Coefficients are Rust i32 values.  A product or sum that leaves the i32  *)
(* range panics in a build with overflow checks (cargo's dev and test       *)
(* profiles) and wraps modulo 2^32 in a build without them (the release     *)
(* profile); the variable overflow_checks says which build is running.     *)
(***************************************************************************)
EXTENDS Integers, Sequences, FiniteSets, TLC

VARIABLES
    overflow_checks,    \* TRUE: arithmetic overflow panics; FALSE: it wraps
    polynomial,         \* run_protocol's polynomial / the receiver of a library call
    prover_overrides,   \* run_protocol's table  round |-> overriding g_j
    verifier_overrides, \* run_protocol's table  round |-> overriding r_j
    values,             \* run_protocol's assignment list  <<var_index, r>>, ...
    g_prev,             \* the previous prover message (C before round 1)
    g,                  \* the prover message of the current round
    r,                  \* the challenge of the current loop iteration
    num_var,            \* the loop counter of run_protocol (the round j)
    pc,                 \* the position inside run_protocol
    outcome,            \* what run_protocol returned, or how it ended
    transcript,         \* what run_protocol printed: the g_j and r_j, in order
    call,               \* the library call applied last (library specification)
    ret                 \* what that call returned

vars == <<overflow_checks, polynomial, prover_overrides, verifier_overrides,
          values, g_prev, g, r, num_var, pc, outcome, transcript, call, ret>>

---------------------------------------------------------------------------
(* i32 arithmetic.                                                         *)

I32_MAX == 2147483647

\* The result of an arithmetic step that panicked ("attempt to multiply /
\* add with overflow").  Every proper result is a residue >= 0.
Panic == -1

\* byte i (0 = least significant) of a value 0 <= x <= I32_MAX
Byte(x, i) == (x \div (256 ^ i)) % 256

\* a * b reduced modulo 2^32 and read as i32 (what `a * b` yields without
\* overflow checks), for operands 0 <= a, b <= I32_MAX.  Schoolbook
\* multiplication on bytes: no intermediate value leaves the 32-bit range.
wrapping_mul(a, b) ==
    LET c0 == Byte(a, 0) * Byte(b, 0)
        c1 == Byte(a, 0) * Byte(b, 1) + Byte(a, 1) * Byte(b, 0) + (c0 \div 256)
        c2 == Byte(a, 0) * Byte(b, 2) + Byte(a, 1) * Byte(b, 1)
              + Byte(a, 2) * Byte(b, 0) + (c1 \div 256)
        c3 == Byte(a, 0) * Byte(b, 3) + Byte(a, 1) * Byte(b, 2)
              + Byte(a, 2) * Byte(b, 1) + Byte(a, 3) * Byte(b, 0) + (c2 \div 256)
        top == c3 % 256
        low == (c0 % 256) + 256 * (c1 % 256) + 65536 * (c2 % 256)
    IN  (IF top >= 128 THEN top - 256 ELSE top) * 16777216 + low

\* a + b reduced modulo 2^32 and read as i32, for 0 <= a, b <= I32_MAX
wrapping_add(a, b) ==
    IF a > I32_MAX - b THEN (((a - I32_MAX) - 1) + b) - I32_MAX - 1 ELSE a + b

mul_overflows(a, b) == b > 0 /\ a > I32_MAX \div b

add_overflows(a, b) == a > I32_MAX - b

\* i32::rem_euclid for a positive modulus
rem_euclid(a, modulus) == a % modulus

\* (a * b).rem_euclid(modulus) on i32, operands 0 <= a, b <= I32_MAX or Panic
mul_rem(a, b, modulus) ==
    IF a = Panic \/ b = Panic THEN Panic
    ELSE IF mul_overflows(a, b)
         THEN (IF overflow_checks THEN Panic
               ELSE rem_euclid(wrapping_mul(a, b), modulus))
         ELSE rem_euclid(a * b, modulus)

\* (a + b).rem_euclid(modulus) on i32, operands 0 <= a, b <= I32_MAX or Panic
add_rem(a, b, modulus) ==
    IF a = Panic \/ b = Panic THEN Panic
    ELSE IF add_overflows(a, b)
         THEN (IF overflow_checks THEN Panic
               ELSE rem_euclid(wrapping_add(a, b), modulus))
         ELSE rem_euclid(a + b, modulus)

\* the while loop of modular_pow, from the state (result, base, exp)
RECURSIVE modular_pow_loop(_, _, _, _)
modular_pow_loop(result, base, exp, modulus) ==
    IF exp > 0
    THEN modular_pow_loop(
             IF exp % 2 = 1 THEN mul_rem(result, base, modulus) ELSE result,
             mul_rem(base, base, modulus),
             exp \div 2,
             modulus)
    ELSE IF base = Panic THEN Panic ELSE result

modular_pow(base, exp, modulus) ==
    modular_pow_loop(1, rem_euclid(base, modulus), exp, modulus)

\* the while loop of is_prime: i runs through 5, 11, 17, .. while
\* i * i <= num, and the loop returns false at the first i such that i or
\* i + 2 divides num, true when it runs out.  (i * i stays below I32_MAX
\* for the moduli used here: i <= 46337, at most 7723 iterations.)
is_prime_loop(num) ==
    \A k \in 0..(IF num < 65536 THEN 42 ELSE 7722) :
        LET i == 5 + 6 * k
        IN  i * i <= num => ~(num % i = 0 \/ num % (i + 2) = 0)

is_prime(num) ==
    IF num <= 1 THEN FALSE
    ELSE IF num <= 3 THEN TRUE
    ELSE IF num % 2 = 0 \/ num % 3 = 0 THEN FALSE
    ELSE is_prime_loop(num)

---------------------------------------------------------------------------
(* MultiVarPolynomial: a record [terms, num_vars, modulus]; terms is the    *)
(* HashMap<Vec<usize>, i32>, a function from exponent tuples to            *)
(* coefficients.  Equality of records is the derived PartialEq.            *)

NoTerms == [e \in {} |-> 0]

\* The value of a call that panicked instead of returning a polynomial.
\* No polynomial has modulus 0 (new() demands a prime).
PanicPoly == [terms |-> NoTerms, num_vars |-> 0, modulus |-> 0]

IsPanic(p) == p.modulus = 0

Max(S) == CHOOSE x \in S : \A y \in S : y <= x

\* MultiVarPolynomial::new
new(n, modulus) ==
    IF modulus <= 0 \/ ~is_prime(modulus) THEN PanicPoly
    ELSE [terms |-> NoTerms, num_vars |-> n, modulus |-> modulus]

\* MultiVarPolynomial::add_term, as the polynomial it leaves in self
add_term(p, exponents, coefficient) ==
    IF Len(exponents) # p.num_vars THEN PanicPoly
    ELSE LET reduced_coefficient == rem_euclid(coefficient, p.modulus)
             c == IF exponents \in DOMAIN p.terms
                  THEN add_rem(p.terms[exponents], reduced_coefficient, p.modulus)
                  ELSE reduced_coefficient
         IN  IF c = Panic THEN PanicPoly
             ELSE [p EXCEPT !.terms =
                      [e \in (DOMAIN p.terms) \cup {exponents} |->
                          IF e = exponents THEN c ELSE p.terms[e]]]

\* MultiVarPolynomial::degree_in_var (var_index counts from 0)
degree_in_var(p, var_index) ==
    IF var_index >= p.num_vars THEN Panic
    ELSE IF DOMAIN p.terms = {} THEN 0
    ELSE Max({e[var_index + 1] : e \in DOMAIN p.terms})

\* values.into_iter().collect::<HashMap<_, _>>(): a later pair for the same
\* index replaces an earlier one
eval_map_of(vals) ==
    [i \in {vals[k][1] : k \in DOMAIN vals} |->
        vals[Max({k \in DOMAIN vals : vals[k][1] = i})][2]]

\* the inner loop of partial_eval over one term, from position pos
\* (position pos holds var_index pos - 1): the new coefficient
RECURSIVE new_coeff_from(_, _, _, _, _)
new_coeff_from(coeff, exponents, eval_map, modulus, pos) ==
    IF pos > Len(exponents) THEN coeff
    ELSE new_coeff_from(
             IF (pos - 1) \in DOMAIN eval_map
             THEN mul_rem(coeff,
                          modular_pow(eval_map[pos - 1], exponents[pos], modulus),
                          modulus)
             ELSE coeff,
             exponents, eval_map, modulus, pos + 1)

\* the inner loop of partial_eval over one term: the exponents kept
RECURSIVE new_exponents_from(_, _, _)
new_exponents_from(exponents, eval_map, pos) ==
    IF pos > Len(exponents) THEN << >>
    ELSE (IF (pos - 1) \in DOMAIN eval_map THEN << >> ELSE <<exponents[pos]>>)
         \o new_exponents_from(exponents, eval_map, pos + 1)

\* new_terms.entry(k).and_modify(|c| (c + v) rem modulus).or_insert(v)
entry_add(terms, k, v, modulus) ==
    [e \in (DOMAIN terms) \cup {k} |->
        IF e = k
        THEN (IF k \in DOMAIN terms THEN add_rem(terms[k], v, modulus) ELSE v)
        ELSE terms[e]]

\* the outer loop of partial_eval over the terms still to visit.  A HashMap
\* is visited in an arbitrary order; the sums are taken modulo the modulus,
\* so the order shows only where an addition overflows.
RECURSIVE new_terms_from(_, _, _, _)
new_terms_from(new_terms, todo, p, eval_map) ==
    IF todo = {} THEN new_terms
    ELSE LET exponents == CHOOSE e \in todo : TRUE
         IN  new_terms_from(
                 entry_add(new_terms,
                           new_exponents_from(exponents, eval_map, 1),
                           new_coeff_from(p.terms[exponents], exponents,
                                          eval_map, p.modulus, 1),
                           p.modulus),
                 todo \ {exponents}, p, eval_map)

\* self.num_vars - eval_map.len() on usize: a negative difference panics
\* with overflow checks and otherwise wraps to 2^64 + difference, which is
\* written here by its signed representative (the difference itself)
usize_sub(a, b) == a - b

\* MultiVarPolynomial::partial_eval
partial_eval(p, vals) ==
    LET eval_map == eval_map_of(vals)
        new_terms == new_terms_from(NoTerms, DOMAIN p.terms, p, eval_map)
        new_num_vars == usize_sub(p.num_vars, Cardinality(DOMAIN eval_map))
    IN  IF IsPanic(p) THEN PanicPoly
        ELSE IF \E k \in DOMAIN new_terms : new_terms[k] = Panic THEN PanicPoly
        ELSE IF new_num_vars < 0 /\ overflow_checks THEN PanicPoly
        ELSE [terms |-> new_terms, num_vars |-> new_num_vars,
              modulus |-> p.modulus]

\* the loop of Add::add: result.add_term(exp, coeff) for each term of other
RECURSIVE add_terms_from(_, _, _)
add_terms_from(result, todo, other) ==
    IF todo = {} \/ IsPanic(result) THEN result
    ELSE LET exp == CHOOSE e \in todo : TRUE
         IN  add_terms_from(add_term(result, exp, other.terms[exp]),
                            todo \ {exp}, other)

\* impl Add for MultiVarPolynomial
add(self, other) ==
    IF IsPanic(self) \/ IsPanic(other) THEN PanicPoly
    ELSE IF self.num_vars # other.num_vars THEN PanicPoly
    ELSE IF self.modulus # other.modulus THEN PanicPoly
    ELSE add_terms_from(self, DOMAIN other.terms, other)

\* a faulty bool_sum that forgets the evaluation at 0
bool_sum_at_one_only(p) ==
    partial_eval(p, << <<usize_sub(p.num_vars, 1), 1>> >>)

\* MultiVarPolynomial::bool_sum
bool_sum(p) ==
    add(partial_eval(p, << <<usize_sub(p.num_vars, 1), 0>> >>),
        partial_eval(p, << <<usize_sub(p.num_vars, 1), 1>> >>))

\* the while loop of compute_g_j
RECURSIVE bool_sum_until(_, _)
bool_sum_until(reduced_poly, num_remaining_vars) ==
    IF IsPanic(reduced_poly) THEN reduced_poly
    ELSE IF reduced_poly.num_vars > num_remaining_vars
         THEN bool_sum_until(bool_sum(reduced_poly), num_remaining_vars)
         ELSE reduced_poly

\* compute_g_j
compute_g_j(poly, num_remaining_vars, vals) ==
    bool_sum_until(IF vals # << >> THEN partial_eval(poly, vals) ELSE poly,
                   num_remaining_vars)

---------------------------------------------------------------------------
(* The inputs the specifications draw from.                                *)

MaxVars == 2        \* generated polynomials have 1..MaxVars variables
MaxExp == 1         \* ... exponents 0..MaxExp
MaxTerms == 2       \* ... and at most MaxTerms terms
MaxChallenge == 2   \* challenges are drawn from 0..MaxChallenge and modulus-1

MinModulus == 3      \* the generated polynomials' modulus is the least prime >= it

RECURSIVE next_prime(_)
next_prime(k) == IF is_prime(k) THEN k ELSE next_prime(k + 1)

\* every residue of this modulus is enumerated
SmallModulus == next_prime(MinModulus)
\* the modulus of the tests of run_protocol
ScenarioModulus == 97
\* the modulus of test_partial_eval
PartialEvalModulus == 23
\* the least prime p with (p - 1) * (p - 1) > I32_MAX, 46349
WideModulus == next_prime(46342)
\* the least prime p with (p - 1) + (p - 1) > I32_MAX, 1073741827
AddWideModulus == next_prime(1073741825)

\* all exponent tuples of length n with entries 0..d
RECURSIVE Tuples(_, _)
Tuples(n, d) ==
    IF n = 0 THEN {<< >>}
    ELSE {t \o <<e>> : t \in Tuples(n - 1, d), e \in 0..d}

\* the polynomials that new(n, modulus) and at most k calls of add_term on
\* distinct exponent tuples (exponents 0..d, coefficients in coeffs) build
RECURSIVE Built(_, _, _, _, _)
Built(n, modulus, d, coeffs, k) ==
    IF k = 0 THEN {new(n, modulus)}
    ELSE LET prev == Built(n, modulus, d, coeffs, k - 1)
         IN  prev \cup
             ({add_term(p, t, c) : p \in prev,
                                   t \in Tuples(n, d),
                                   c \in coeffs} \ {PanicPoly})

\* test_run_protocol_with_success / _with_fail: 2*x1^3 + x1*x3 + x2*x3 mod 97
ScenarioPoly ==
    add_term(add_term(add_term(new(3, ScenarioModulus),
                               <<3, 0, 0>>, 2), <<1, 0, 1>>, 1), <<0, 1, 1>>, 1)

\* test_run_protocol_with_fail: the incorrect g_1 = 8*X^3 + 2*X
IncorrectG1 ==
    add_term(add_term(new(1, ScenarioModulus), <<3>>, 8), <<1>>, 2)

\* test_run_protocol_with_success: the table r_1 = 2, r_2 = 3, r_3 = 6
ScenarioChallenges == <<2, 3, 6>>

\* an override for the polynomial (WideModulus - 1) * x1: g_1 = 40256*X + 3046
\* has g_1(0) + g_1(1) = WideModulus - 1 and differs from it at X = WideModulus - 1
WrapG1 ==
    add_term(add_term(new(1, WideModulus), <<1>>, 40256), <<0>>, 3046)

\* the polynomials run_protocol is started on (num_vars >= 1, prime modulus)
ProtocolPolys ==
    UNION {Built(n, SmallModulus, MaxExp, 1..(SmallModulus - 1), MaxTerms) :
              n \in 1..MaxVars}
    \cup {ScenarioPoly}
    \cup UNION {Built(n, WideModulus, MaxExp, {WideModulus - 1}, 1) :
                   n \in 1..MaxVars}

\* a prime other than the polynomial's modulus
OtherModulus(modulus) == next_prime(modulus + 1)

\* overrides that are not messages of the protocol: no variable, two
\* variables, another field
Malformed(modulus) ==
    { new(0, modulus),
      add_term(new(0, modulus), << >>, 1),
      add_term(new(2, modulus), <<1, 1>>, 1),
      add_term(new(2, modulus), <<MaxExp + 1, 0>>, 1),
      add_term(new(1, OtherModulus(modulus)), <<1>>, 1),
      add_term(new(1, OtherModulus(modulus)), <<MaxExp + 1>>, 1) }

\* univariate overrides over the polynomial's field, exponents up to one
\* above the generated polynomials' degree
Univariate(modulus) ==
    IF modulus = SmallModulus
    THEN Built(1, modulus, MaxExp + 1, 0..(modulus - 1), MaxTerms)
    ELSE IF modulus = ScenarioModulus
    THEN {IncorrectG1} \cup Built(1, modulus, MaxExp, {1}, 1)
    ELSE {WrapG1} \cup Built(1, modulus, MaxExp + 1, {1, modulus - 1}, 1)

\* the polynomials the prover-override table may hold for a round
OverrideChoices(modulus) == Univariate(modulus) \cup Malformed(modulus)

\* the values a challenge is sampled from: a subset of 0..modulus-1
\* (all of it for SmallModulus)
Challenges(modulus) ==
    {v \in 0..MaxChallenge : v < modulus} \cup {modulus - 1}

\* the values the verifier-override table may hold for round k
OverrideChallenges(modulus, k) ==
    Challenges(modulus) \cup
    (IF modulus = ScenarioModulus /\ k \in DOMAIN ScenarioChallenges
     THEN {ScenarioChallenges[k]} ELSE {})

---------------------------------------------------------------------------
(* run_protocol, one action per step of its body.                          *)
(*                                                                         *)
(* The two override tables are inputs that run_protocol only reads, each   *)
(* key at most once: prover_overrides and verifier_overrides hold the      *)
(* entries of the tables that the run has met so far, and the step that    *)
(* looks a key up decides whether the table has an entry for it.           *)

NoEntries == [k \in {} |-> 0]

\* a table with one more entry
WithEntry(table, key, value) ==
    [k \in (DOMAIN table) \cup {key} |-> IF k = key THEN value ELSE table[k]]

NoPoly == [terms |-> NoTerms, num_vars |-> 0, modulus |-> 1]
NoCall == [fn |-> "none"]

Running == [tag |-> "Running", reason |-> "", round |-> 0]
\* Ok(())
Accepted == [tag |-> "Ok", reason |-> "", round |-> 0]
\* Err(format!(..)): the failing check and the round the message names (the
\* message of the final check names none; that check follows the last round)
Rejected(reason, round) == [tag |-> "Err", reason |-> reason, round |-> round]
\* the thread panicked ("attempt to multiply with overflow")
Panicked == [tag |-> "Panic", reason |-> "", round |-> 0]

\* println!("C is ..") / println!("g_j is ..") / println!("r_j is ..")
Printed(kind, index, value) == [kind |-> kind, index |-> index, value |-> value]

LibraryIdle == call = NoCall /\ ret = NoPoly

InitProtocol ==
    /\ overflow_checks \in BOOLEAN
    /\ polynomial \in ProtocolPolys
    /\ prover_overrides = NoEntries
    /\ verifier_overrides = NoEntries
    /\ values = << >>
    /\ g_prev = NoPoly
    /\ g = NoPoly
    /\ r = 0
    /\ num_var = 0
    /\ pc = "start"
    /\ outcome = Running
    /\ transcript = << >>
    /\ LibraryIdle

\* lines 116-122: the prover computes C
ComputeC ==
    /\ pc = "start"
    /\ LET c == compute_g_j(polynomial, 0, values)
       IN  IF IsPanic(c)
           THEN /\ pc' = "done"
                /\ outcome' = Panicked
                /\ UNCHANGED <<g_prev, num_var, transcript>>
           ELSE /\ g_prev' = c
                /\ num_var' = 1
                /\ transcript' = Append(transcript, Printed("C", 0, c))
                /\ pc' = "challenge"
                /\ UNCHANGED outcome
    /\ UNCHANGED <<overflow_checks, polynomial, prover_overrides,
                   verifier_overrides, values, g, r, call, ret>>

\* lines 126, 137-139: round 1 has no challenge before it
NoChallenge ==
    /\ pc = "challenge"
    /\ num_var = 1
    /\ r' = 0
    /\ pc' = "prover"
    /\ UNCHANGED <<overflow_checks, polynomial, prover_overrides,
                   verifier_overrides, values, g_prev, g, num_var, outcome,
                   transcript, call, ret>>

\* a faulty recording of the challenge, under the 1-based index k
TakeChallengeOneBased(k, v, next_pc) ==
    /\ r' = v
    /\ values' = Append(values, <<k, v>>)
    /\ transcript' = Append(transcript, Printed("r", k, v))
    /\ pc' = next_pc
    /\ UNCHANGED <<overflow_checks, polynomial, prover_overrides, g_prev, g,
                   num_var, outcome, call, ret>>

\* lines 133-135 and 173-174: record the challenge r_k = v
TakeChallenge(k, v, next_pc) ==
    /\ r' = v
    /\ values' = Append(values, <<k - 1, v>>)
    /\ transcript' = Append(transcript, Printed("r", k, v))
    /\ pc' = next_pc
    /\ UNCHANGED <<overflow_checks, polynomial, prover_overrides, g_prev, g,
                   num_var, outcome, call, ret>>

\* lines 126-128: verifier_overrides has an entry for round num_var - 1
OverrideChallenge ==
    /\ pc = "challenge"
    /\ num_var > 1
    /\ \E v \in OverrideChallenges(polynomial.modulus, num_var - 1) :
          /\ verifier_overrides' = WithEntry(verifier_overrides, num_var - 1, v)
          /\ TakeChallenge(num_var - 1, v, "prover")

\* lines 130-132: it has none, rng.gen_range(0..modulus)
SampleChallenge ==
    /\ pc = "challenge"
    /\ num_var > 1
    /\ \E v \in Challenges(polynomial.modulus) :
          /\ UNCHANGED verifier_overrides
          /\ TakeChallenge(num_var - 1, v, "prover")

\* lines 142-143, 147: prover_overrides has an entry for round num_var
OverrideMessage ==
    /\ pc = "prover"
    /\ \E override_g \in OverrideChoices(polynomial.modulus) :
          /\ prover_overrides' = WithEntry(prover_overrides, num_var, override_g)
          /\ g' = override_g
          /\ transcript' = Append(transcript, Printed("g", num_var, override_g))
    /\ pc' = "check_univariate"
    /\ UNCHANGED <<overflow_checks, polynomial, verifier_overrides, values,
                   g_prev, r, num_var, outcome, call, ret>>

\* lines 144-147: it has none, the honest g_j
ComputeMessage ==
    /\ pc = "prover"
    /\ LET honest == compute_g_j(polynomial, 1, values)
       IN  IF IsPanic(honest)
           THEN /\ pc' = "done"
                /\ outcome' = Panicked
                /\ UNCHANGED <<g, transcript>>
           ELSE /\ g' = honest
                /\ transcript' = Append(transcript, Printed("g", num_var, honest))
                /\ pc' = "check_univariate"
                /\ UNCHANGED outcome
    /\ UNCHANGED <<overflow_checks, polynomial, prover_overrides,
                   verifier_overrides, values, g_prev, r, num_var, call, ret>>

\* a faulty univariate check that only refuses a g without variables
CheckUnivariateNonConstant ==
    /\ pc = "check_univariate"
    /\ IF g.num_vars < 1
       THEN /\ pc' = "done"
            /\ outcome' = Rejected("NotUnivariate", num_var)
       ELSE /\ pc' = "check_degree"
            /\ UNCHANGED outcome
    /\ UNCHANGED <<overflow_checks, polynomial, prover_overrides,
                   verifier_overrides, values, g_prev, g, r, num_var,
                   transcript, call, ret>>

\* lines 149-152
CheckUnivariate ==
    /\ pc = "check_univariate"
    /\ IF g.num_vars # 1
       THEN /\ pc' = "done"
            /\ outcome' = Rejected("NotUnivariate", num_var)
       ELSE /\ pc' = "check_degree"
            /\ UNCHANGED outcome
    /\ UNCHANGED <<overflow_checks, polynomial, prover_overrides,
                   verifier_overrides, values, g_prev, g, r, num_var,
                   transcript, call, ret>>

\* lines 154-157
CheckDegree ==
    /\ pc = "check_degree"
    /\ IF degree_in_var(g, 0) > degree_in_var(polynomial, num_var - 1)
       THEN /\ pc' = "done"
            /\ outcome' = Rejected("DegreeExceeded", num_var)
       ELSE /\ pc' = "check_consistency"
            /\ UNCHANGED outcome
    /\ UNCHANGED <<overflow_checks, polynomial, prover_overrides,
                   verifier_overrides, values, g_prev, g, r, num_var,
                   transcript, call, ret>>

\* lines 159-165
CheckConsistency ==
    /\ pc = "check_consistency"
    /\ LET lhs == partial_eval(g_prev,
                               IF num_var > 1 THEN << <<0, r>> >> ELSE << >>)
           rhs == bool_sum(g)
       IN  IF IsPanic(lhs) \/ IsPanic(rhs)
           THEN /\ pc' = "done"
                /\ outcome' = Panicked
                /\ UNCHANGED <<g_prev, num_var>>
           ELSE IF lhs # rhs
           THEN /\ pc' = "done"
                /\ outcome' = Rejected("ConsistencyFailure", num_var)
                /\ UNCHANGED <<g_prev, num_var>>
           ELSE /\ g_prev' = g
                /\ num_var' = num_var + 1
                /\ pc' = IF num_var < polynomial.num_vars
                         THEN "challenge" ELSE "final_challenge"
                /\ UNCHANGED outcome
    /\ UNCHANGED <<overflow_checks, polynomial, prover_overrides,
                   verifier_overrides, values, g, r, transcript, call, ret>>

\* lines 168-169: verifier_overrides has an entry for round num_vars
FinalOverrideChallenge ==
    /\ pc = "final_challenge"
    /\ \E v \in OverrideChallenges(polynomial.modulus, polynomial.num_vars) :
          /\ verifier_overrides' =
                 WithEntry(verifier_overrides, polynomial.num_vars, v)
          /\ TakeChallenge(polynomial.num_vars, v, "final_check")

\* lines 170-172: it has none
FinalSampleChallenge ==
    /\ pc = "final_challenge"
    /\ \E v \in Challenges(polynomial.modulus) :
          /\ UNCHANGED verifier_overrides
          /\ TakeChallenge(polynomial.num_vars, v, "final_check")

\* lines 176-182
FinalCheck ==
    /\ pc = "final_check"
    /\ LET lhs == partial_eval(polynomial, values)
           rhs == partial_eval(g_prev, << <<0, r>> >>)
       IN  outcome' = IF IsPanic(lhs) \/ IsPanic(rhs) THEN Panicked
                      ELSE IF lhs # rhs
                      THEN Rejected("FinalCheckFailure", polynomial.num_vars)
                      ELSE Accepted
    /\ pc' = "done"
    /\ UNCHANGED <<overflow_checks, polynomial, prover_overrides,
                   verifier_overrides, values, g_prev, g, r, num_var,
                   transcript, call, ret>>

Next ==
    \/ ComputeC
    \/ NoChallenge
    \/ OverrideChallenge
    \/ SampleChallenge
    \/ OverrideMessage
    \/ ComputeMessage
    \/ CheckUnivariate
    \/ CheckDegree
    \/ CheckConsistency
    \/ FinalOverrideChallenge
    \/ FinalSampleChallenge
    \/ FinalCheck

Spec == InitProtocol /\ [][Next]_vars

---------------------------------------------------------------------------
(* The library on its own: calls of modular_pow, partial_eval, bool_sum    *)
(* and compute_g_j on a polynomial built by new and add_term, one call per  *)
(* behaviour; pc holds the function the caller is about to call.            *)

\* the polynomials the library calls are applied to
LibraryPolys ==
    UNION {Built(n, modulus, MaxExp + 1, {1, modulus - 1}, MaxTerms) :
              n \in 1..MaxVars,
              modulus \in {SmallModulus, PartialEvalModulus,
                           WideModulus, AddWideModulus}}

\* the assignments partial_eval is called with: up to MaxVars pairs, indices
\* up to num_vars (one past the last variable), repeated indices included
Assignments(p) ==
    UNION {[1..len -> (0..p.num_vars) \X Challenges(p.modulus)] :
              len \in 0..MaxVars}

InitLibrary ==
    /\ overflow_checks \in BOOLEAN
    /\ polynomial \in LibraryPolys
    /\ prover_overrides = NoEntries
    /\ verifier_overrides = NoEntries
    /\ values = << >>
    /\ g_prev = NoPoly
    /\ g = NoPoly
    /\ r = 0
    /\ num_var = 0
    /\ pc \in {"modular_pow", "partial_eval", "bool_sum", "compute_g_j"}
    /\ outcome = Running
    /\ transcript = << >>
    /\ LibraryIdle

ProtocolIdle ==
    UNCHANGED <<overflow_checks, polynomial, prover_overrides,
                verifier_overrides, values, g_prev, g, r, num_var, pc,
                outcome, transcript>>

\* modular_pow(base, exp, polynomial.modulus)
CallModularPow ==
    /\ pc = "modular_pow"
    /\ call.fn = "none"
    /\ \E base \in Challenges(polynomial.modulus) \cup {-1},
          exp \in 0..(MaxExp + 2) :
          /\ call' = [fn |-> "modular_pow", base |-> base, exp |-> exp]
          /\ ret' = modular_pow(base, exp, polynomial.modulus)
    /\ ProtocolIdle

\* polynomial.partial_eval(vals)
CallPartialEval ==
    /\ pc = "partial_eval"
    /\ call.fn = "none"
    /\ \E vals \in Assignments(polynomial) :
          /\ call' = [fn |-> "partial_eval", vals |-> vals]
          /\ ret' = partial_eval(polynomial, vals)
    /\ ProtocolIdle

\* polynomial.bool_sum()
CallBoolSum ==
    /\ pc = "bool_sum"
    /\ call.fn = "none"
    /\ call' = [fn |-> "bool_sum"]
    /\ ret' = bool_sum(polynomial)
    /\ ProtocolIdle

\* compute_g_j(&polynomial, 0, vec![]): the claimed sum C
CallComputeC ==
    /\ pc = "compute_g_j"
    /\ call.fn = "none"
    /\ call' = [fn |-> "compute_g_j"]
    /\ ret' = compute_g_j(polynomial, 0, << >>)
    /\ ProtocolIdle

NextLibrary ==
    \/ CallModularPow
    \/ CallPartialEval
    \/ CallBoolSum
    \/ CallComputeC

LibrarySpec == InitLibrary /\ [][NextLibrary]_vars

---------------------------------------------------------------------------
(* The field Z/modulus and the values of polynomials in it, computed        *)
(* without any product or sum above the modulus: what the claims compare    *)
(* the program's results with.                                              *)

FieldAdd(a, b, modulus) == IF a >= modulus - b THEN a - (modulus - b) ELSE a + b

RECURSIVE FieldMul(_, _, _)
FieldMul(a, b, modulus) ==
    IF b = 0 THEN 0
    ELSE LET half == FieldMul(a, b \div 2, modulus)
             twice == FieldAdd(half, half, modulus)
         IN  IF b % 2 = 1 THEN FieldAdd(twice, a, modulus) ELSE twice

\* x^e in the field, with x^0 = 1 also for x = 0
RECURSIVE FieldPow(_, _, _)
FieldPow(x, e, modulus) ==
    IF e = 0 THEN 1 ELSE FieldMul(FieldPow(x, e - 1, modulus), x, modulus)

\* the product of point[i]^exponents[i] over the positions from pos on
RECURSIVE MonomialAt(_, _, _, _)
MonomialAt(exponents, point, modulus, pos) ==
    IF pos > Len(exponents) THEN 1
    ELSE FieldMul(FieldPow(point[pos], exponents[pos], modulus),
                  MonomialAt(exponents, point, modulus, pos + 1), modulus)

RECURSIVE TermsAt(_, _, _)
TermsAt(p, todo, point) ==
    IF todo = {} THEN 0
    ELSE LET e == CHOOSE t \in todo : TRUE
         IN  FieldAdd(FieldMul(p.terms[e], MonomialAt(e, point, p.modulus, 1),
                               p.modulus),
                      TermsAt(p, todo \ {e}, point), p.modulus)

\* the value of polynomial p at the point (a tuple of num_vars residues)
ValueAt(p, point) == TermsAt(p, DOMAIN p.terms, point)

\* the sum of p over prefix \o s for all s in {0,1}^k
RECURSIVE CubeSum(_, _, _)
CubeSum(p, prefix, k) ==
    IF k = 0 THEN ValueAt(p, prefix)
    ELSE FieldAdd(CubeSum(p, Append(prefix, 0), k - 1),
                  CubeSum(p, Append(prefix, 1), k - 1), p.modulus)

\* the largest exponent of variable position pos among the terms of p
DegreeIn(p, pos) ==
    IF DOMAIN p.terms = {} THEN 0 ELSE Max({e[pos] : e \in DOMAIN p.terms})

\* every product of two residues of this modulus fits an i32
ProductsFit(modulus) == ~mul_overflows(modulus - 1, modulus - 1)

---------------------------------------------------------------------------
(* The transcript of a run.                                                *)

Rounds == 1..polynomial.num_vars

PrintedAt(kind, j) ==
    {i \in DOMAIN transcript :
        transcript[i].kind = kind /\ transcript[i].index = j}

\* the message g_j was sent / the challenge r_j was chosen
HasG(j) == PrintedAt("g", j) # {}
HasR(j) == PrintedAt("r", j) # {}
G(j) == transcript[CHOOSE i \in PrintedAt("g", j) : TRUE].value
R(j) == transcript[CHOOSE i \in PrintedAt("r", j) : TRUE].value
\* the claimed sum
C == transcript[1].value

\* r_1, .., r_k
Point(k) == [i \in 1..k |-> R(i)]

\* g(0) + g(1) of a univariate message
SumOf(gj) ==
    FieldAdd(ValueAt(gj, <<0>>), ValueAt(gj, <<1>>), gj.modulus)

\* the value at X_j = x of the honest g_j for the challenges r_1 .. r_(j-1)
HonestAt(j, x) ==
    CubeSum(polynomial, Append(Point(j - 1), x), polynomial.num_vars - j)

\* what the verifier compares g_j(0) + g_j(1) with: C, or g_(j-1)(r_(j-1))
Expected(j) ==
    IF j = 1 THEN ValueAt(C, << >>) ELSE ValueAt(G(j - 1), <<R(j - 1)>>)

---------------------------------------------------------------------------
(* Claims about run_protocol, checked under Spec.                          *)

\* C1 (as stated).  Completeness: a finished run in which the prover-override
\* table had no entry ended in Accept, whatever the challenges were and
\* wherever they came from.
C1_Completeness ==
    (pc = "done" /\ DOMAIN prover_overrides = {}) => outcome = Accepted

\* C1 holds of the runs whose modulus keeps every product inside the i32.
C1_CompletenessWhereProductsFit ==
    (pc = "done" /\ DOMAIN prover_overrides = {}
        /\ ProductsFit(polynomial.modulus)) => outcome = Accepted

\* round j was overridden with a univariate polynomial over the polynomial's
\* field whose degree is within the bound for X_j
WellFormedOverride(j) ==
    /\ j \in DOMAIN prover_overrides
    /\ prover_overrides[j].num_vars = 1
    /\ prover_overrides[j].modulus = polynomial.modulus
    /\ DegreeIn(prover_overrides[j], 1) <= DegreeIn(polynomial, j)

\* the challenge r_j came from the verifier-override table and the overriding
\* g_j differs from the honest g_j at it
Exposed(j) ==
    /\ HasR(j)
    /\ j \in DOMAIN verifier_overrides
    /\ ValueAt(G(j), <<R(j)>>) # HonestAt(j, R(j))

\* an overriding g_j whose g_j(0) + g_j(1) is not the value the verifier
\* expects is rejected at round j with ConsistencyFailure
SumMismatchRejected ==
    \A j \in Rounds :
        (WellFormedOverride(j) /\ SumOf(G(j)) # Expected(j))
            => outcome = Rejected("ConsistencyFailure", j)

FirstFailing(gj, j) ==
    IF gj.num_vars # 1 THEN "NotUnivariate"
    ELSE IF DegreeIn(gj, 1) > DegreeIn(polynomial, j) THEN "DegreeExceeded"
    ELSE "ConsistencyFailure"

\* C3.  The checks of a round run in the order univariate, degree,
\* consistency: the degree check is reached only by a univariate g_j, the
\* consistency check only by one within the degree bound, and a rejection
\* inside round j names the first check that g_j fails.
C3_ChecksInOrder ==
    /\ pc \in {"check_degree", "check_consistency"} => g.num_vars = 1
    /\ pc = "check_consistency" =>
           DegreeIn(g, 1) <= DegreeIn(polynomial, num_var)
    /\ (pc = "done" /\ outcome.tag = "Err"
            /\ outcome.reason # "FinalCheckFailure") =>
           outcome = Rejected(FirstFailing(g, num_var), num_var)
    /\ \A j \in Rounds :
           (HasG(j) /\ FirstFailing(G(j), j) # "ConsistencyFailure") =>
               /\ ~HasR(j)
               /\ num_var = j
               /\ pc = "done" => outcome = Rejected(FirstFailing(G(j), j), j)

\* C3's case: a g_j with two variables whose exponent of the first is above
\* the degree bound, and that the consistency check would refuse as well, was
\* rejected as NotUnivariate.
C3_Witness ==
    /\ pc = "done"
    /\ g.num_vars = 2
    /\ \E e \in DOMAIN g.terms : e[1] > DegreeIn(polynomial, num_var)
    /\ outcome = Rejected("NotUnivariate", num_var)

\* the outcome is Accept or a Reject naming one of the four failure kinds and
\* a round of the run
TypedOutcome ==
    \/ outcome = Accepted
    \/ /\ outcome.tag = "Err"
       /\ outcome.reason \in {"NotUnivariate", "DegreeExceeded",
                              "ConsistencyFailure", "FinalCheckFailure"}
       /\ outcome.round \in Rounds

\* C4 (as stated).  Every run, for any override tables, ends after at most n
\* rounds plus the final check in Accept or in a Reject that carries the
\* failure kind and the round; it never ends in a panic.
C4_TypedTermination ==
    /\ num_var <= polynomial.num_vars + 1
    /\ Len(transcript) <= 2 * polynomial.num_vars + 1
    /\ pc = "done" => TypedOutcome

\* C4 holds of the runs whose modulus keeps every product inside the i32.
C4_TypedTerminationWhereProductsFit ==
    ProductsFit(polynomial.modulus) => C4_TypedTermination

\* the messages and challenges of the whole run satisfy, in the field, every
\* equation and degree bound of the protocol
ValidTranscript ==
    /\ \A j \in Rounds :
          /\ HasG(j) /\ HasR(j)
          /\ G(j).num_vars = 1
          /\ G(j).modulus = polynomial.modulus
          /\ DegreeIn(G(j), 1) <= DegreeIn(polynomial, j)
          /\ SumOf(G(j)) = Expected(j)
    /\ ValueAt(G(polynomial.num_vars), <<R(polynomial.num_vars)>>)
           = ValueAt(polynomial, Point(polynomial.num_vars))

\* C5 (as stated).  Accept implies that the whole transcript is valid:
\* C = g_1(0) + g_1(1), g_(j-1)(r_(j-1)) = g_j(0) + g_j(1) for 1 < j <= n,
\* deg g_j <= deg_(X_j) of the polynomial, and g_n(r_n) is the polynomial's
\* value at (r_1, .., r_n), all in the field.
C5_AcceptImpliesValid ==
    outcome = Accepted => ValidTranscript

\* C5 holds of the runs whose modulus keeps every product inside the i32.
C5_AcceptImpliesValidWhereProductsFit ==
    (outcome = Accepted /\ ProductsFit(polynomial.modulus)) => ValidTranscript

\* C10.  Challenges and messages alternate: the transcript is C, g_1, r_1,
\* g_2, r_2, ..; r_k exists only once g_k has passed the three checks, is
\* the override entry for k when there is one and a residue otherwise, and
\* is recorded as the value of variable index k - 1, so the assignment list
\* is [(0, r_1), .., (j-2, r_(j-1))] during round j and
\* [(0, r_1), .., (n-1, r_n)] at the final check; an honest g_j is computed
\* from the polynomial with exactly the variables before j fixed.
C10_Alternation ==
    /\ \A i \in DOMAIN transcript :
          transcript[i].kind = (IF i = 1 THEN "C"
                                ELSE IF i % 2 = 0 THEN "g" ELSE "r")
          /\ transcript[i].index = i \div 2
    /\ \A k \in Rounds :
          HasR(k) =>
              /\ HasG(k)
              /\ FirstFailing(G(k), k) = "ConsistencyFailure"
              /\ num_var >= k + 1
              /\ R(k) \in 0..(polynomial.modulus - 1)
              /\ k \in DOMAIN verifier_overrides => R(k) = verifier_overrides[k]
    /\ values = [k \in 1..Len(values) |-> <<k - 1, R(k)>>]
    /\ \A k \in Rounds : HasR(k) <=> k <= Len(values)
    /\ pc \in {"prover", "check_univariate", "check_degree",
               "check_consistency"} => Len(values) = num_var - 1
    /\ pc = "final_check" => Len(values) = polynomial.num_vars
    /\ \A j \in Rounds :
          (HasG(j) /\ j \notin DOMAIN prover_overrides) =>
              G(j) = compute_g_j(polynomial, 1, SubSeq(values, 1, j - 1))

\* C10's case: a run of at least two rounds reached the final check with
\* r_1 taken from the override table, r_2 sampled, and an honest g_2.
C10_Witness ==
    /\ pc = "final_check"
    /\ polynomial.num_vars >= 2
    /\ 1 \in DOMAIN verifier_overrides
    /\ 2 \notin DOMAIN verifier_overrides
    /\ 2 \notin DOMAIN prover_overrides
    /\ values = << <<0, R(1)>>, <<1, R(2)>> >>

---------------------------------------------------------------------------
(* Claims about the polynomial library, checked under LibrarySpec.          *)

\* the assignment names a variable index twice / an index >= n
HasDuplicate(vals) ==
    \E i, k \in DOMAIN vals : i # k /\ vals[i][1] = vals[k][1]
HasOutOfRange(vals, n) ==
    \E k \in DOMAIN vals : vals[k][1] >= n

\* every exponent tuple of p has length p.num_vars
TuplesFit(p) ==
    \A e \in DOMAIN p.terms : Len(e) = p.num_vars

\* C6 (as stated).  partial_eval validates its assignment: a call that names
\* an index twice or an index >= num_vars fails and returns no polynomial,
\* in particular none whose num_vars differs from the length of its
\* exponent tuples.
C6_AssignmentValidated ==
    (/\ call.fn = "partial_eval"
     /\ \/ HasDuplicate(call.vals)
        \/ HasOutOfRange(call.vals, polynomial.num_vars))
        => IsPanic(ret)

\* what C6 rules out in particular: a returned polynomial whose tuples do
\* not have the length num_vars
C6_ResultTuplesFit ==
    (call.fn = "partial_eval" /\ ~IsPanic(ret)) => TuplesFit(ret)

\* the point of the polynomial's variables that the assignment vals and the
\* values rest of the unassigned variables (in their order) make up
MergedPoint(vals, rest) ==
    LET eval_map == eval_map_of(vals)
    IN  [i \in 1..polynomial.num_vars |->
            IF (i - 1) \in DOMAIN eval_map THEN eval_map[i - 1]
            ELSE rest[Cardinality({j \in 1..i :
                                      (j - 1) \notin DOMAIN eval_map})]]

\* ret is the polynomial in the unassigned variables, in their order, whose
\* values are those of the polynomial with vals substituted; a full
\* assignment of a polynomial with terms leaves exactly the coefficient at
\* the empty tuple
EvaluatedAt(vals) ==
    /\ ret.modulus = polynomial.modulus
    /\ ret.num_vars = polynomial.num_vars - Len(vals)
    /\ TuplesFit(ret)
    /\ \A e \in DOMAIN ret.terms : ret.terms[e] \in 0..(ret.modulus - 1)
    /\ \A rest \in [1..ret.num_vars -> Challenges(ret.modulus)] :
          ValueAt(ret, rest) = ValueAt(polynomial, MergedPoint(vals, rest))
    /\ (ret.num_vars = 0 /\ DOMAIN polynomial.terms # {})
           => DOMAIN ret.terms = {<< >>}

\* C7 (as stated).  partial_eval on a full assignment returns the
\* zero-variable polynomial whose sole coefficient is the polynomial's value
\* at the point, with 0^0 = 1; on a partial assignment the unassigned
\* positions keep their order and colliding tuples are summed in the field.
C7_Evaluates ==
    (/\ call.fn = "partial_eval"
     /\ ~HasDuplicate(call.vals)
     /\ ~HasOutOfRange(call.vals, polynomial.num_vars))
        => EvaluatedAt(call.vals)

\* C7 holds of the polynomials whose modulus keeps every product and sum
\* inside the i32.
C7_EvaluatesWhereProductsFit ==
    (/\ call.fn = "partial_eval"
     /\ ~HasDuplicate(call.vals)
     /\ ~HasOutOfRange(call.vals, polynomial.num_vars)
     /\ ProductsFit(polynomial.modulus))
        => EvaluatedAt(call.vals)

\* C8 (as stated).  modular_pow(base, exp, modulus) is base^exp in the field,
\* a residue in [0, modulus), for every prime modulus of the i32, every base
\* and every exp >= 0.
C8_ModularPowExact ==
    call.fn = "modular_pow" =>
        /\ ret \in 0..(polynomial.modulus - 1)
        /\ ret = FieldPow(call.base % polynomial.modulus, call.exp,
                          polynomial.modulus)

\* C8 holds of the moduli that keep every product inside the i32.
C8_ModularPowExactWhereProductsFit ==
    (call.fn = "modular_pow" /\ ProductsFit(polynomial.modulus)) =>
        ret = FieldPow(call.base % polynomial.modulus, call.exp,
                       polynomial.modulus)

\* every sum of two residues of this modulus fits an i32
SumsFit(modulus) == ~add_overflows(modulus - 1, modulus - 1)

\* bool_sum returned the polynomial in one variable less whose value at every
\* point is the sum of the polynomial's values with the last variable 0 and 1
SummedOverLast ==
    /\ ret.modulus = polynomial.modulus
    /\ ret.num_vars = polynomial.num_vars - 1
    /\ TuplesFit(ret)
    /\ \A rest \in [1..ret.num_vars -> Challenges(ret.modulus)] :
          ValueAt(ret, rest) = CubeSum(polynomial, rest, 1)

\* compute_g_j returned, as the claimed sum C, the zero-variable polynomial
\* whose value is the sum of the polynomial over the boolean hypercube
SummedOverCube ==
    /\ ret.modulus = polynomial.modulus
    /\ ret.num_vars = 0
    /\ TuplesFit(ret)
    /\ ValueAt(ret, << >>) = CubeSum(polynomial, << >>, polynomial.num_vars)

\* C9 (as stated).  bool_sum of a polynomial with k >= 1 variables is the
\* polynomial with k - 1 variables partial_eval(last = 0) +
\* partial_eval(last = 1), so the claimed sum C that compute_g_j obtains by
\* repeating it has as value the sum of the polynomial over {0,1}^n.
C9_SumsOverCube ==
    /\ call.fn = "bool_sum" => SummedOverLast
    /\ call.fn = "compute_g_j" => SummedOverCube

\* C9 holds of the polynomials whose modulus keeps every sum inside the i32.
C9_SumsOverCubeWhereSumsFit ==
    SumsFit(polynomial.modulus) => C9_SumsOverCube

---------------------------------------------------------------------------
(* The comparisons of the verifier, checked under Spec.                    *)

\* the run was rejected by the consistency check of round j on a well-formed
\* override g_j although g_j(0) + g_j(1) is the expected field value
ConsistencyRejectedEqualValues(j) ==
    /\ outcome = Rejected("ConsistencyFailure", j)
    /\ WellFormedOverride(j)
    /\ SumOf(G(j)) = Expected(j)

\* the run was rejected by the final check on a well-formed override g_n
\* although g_n(r_n) is the polynomial's value at (r_1, .., r_n)
FinalRejectedEqualValues ==
    /\ outcome = Rejected("FinalCheckFailure", polynomial.num_vars)
    /\ WellFormedOverride(polynomial.num_vars)
    /\ ValueAt(G(polynomial.num_vars), <<R(polynomial.num_vars)>>)
           = ValueAt(polynomial, Point(polynomial.num_vars))

\* C11 (as stated).  The consistency check of round j and the final check
\* reject only when the two compared field values differ: a well-formed
\* override g_j whose g_j(0) + g_j(1) is the expected value (whose g_n(r_n)
\* is the polynomial's value) passes, however g_j is represented, an empty
\* term map and explicit zero coefficients included.  (Stated for the moduli
\* whose products fit the i32, where the arithmetic is exact.)
C11_RejectOnlyOnValues ==
    (pc = "done" /\ ProductsFit(polynomial.modulus)) =>
        /\ \A j \in Rounds : ~ConsistencyRejectedEqualValues(j)
        /\ ~FinalRejectedEqualValues

\* The final check alone does compare values on these moduli: a g_n that
\* passed round n has a term, so both sides hold exactly one coefficient.
C11_FinalCheckOnValues ==
    (pc = "done" /\ ProductsFit(polynomial.modulus)) =>
        ~FinalRejectedEqualValues

\* So does the consistency check when neither g_j nor the polynomial it is
\* compared with has an empty term map.
C11_RejectOnlyOnValuesOfNonEmptyMaps ==
    (pc = "done" /\ ProductsFit(polynomial.modulus)) =>
        \A j \in Rounds :
            ConsistencyRejectedEqualValues(j) =>
                (DOMAIN G(j).terms = {}) # (DOMAIN g_prev.terms = {})

=============================================================================
